---- MODULE Spec2Model ----
(***************************************************************************)
(* Model of the SPLICE ingestion pipeline:                                 *)
(*   src/ocr.py       PDFExtractor  (extract_text, process_directory,      *)
(*                                   extract_single)                       *)
(*   src/db_setup.py  SpliceDB      (__init__, add_paper,                  *)
(*                                   add_papers_from_json, search,         *)
(*                                   get_stats) and init_database          *)
(*                                                                         *)
(* Texts are sequences of one-character strings, so that str.strip and     *)
(* str.join are computed.  Dictionaries are functions on string keys.  A   *)
(* JSON file is the sequence of (key, value) pairs json.dump writes, with  *)
(* a flag telling whether the write ran to completion.  The collaborators  *)
(* (PyMuPDF, ChromaDB, the filesystem) appear through the calls the code   *)
(* makes into them; the ways they can fail are inputs of the model.        *)
(***************************************************************************)
EXTENDS Integers, Sequences, FiniteSets, TLC

VARIABLES
    fs,            \* the PDF files on disk: path -> PDF document
    output_dir,    \* data/processed: file name -> JSON file
    call,          \* the last top-level call: op, args, raised, ret
    stdout,        \* the lines the last call printed
    open_handles,  \* file handles opened by the last call and still open
    seen,          \* every (path, doc_id) a successful extract_text produced
    chroma,        \* the persistent store: directory, collection, entries
    db_open,       \* a SpliceDB instance has been constructed
    on_duplicate   \* what the installed chromadb does on add of a present id

vars == <<fs, output_dir, call, stdout, open_handles, seen, chroma, db_open,
          on_duplicate>>

store_vars == <<chroma, db_open, on_duplicate>>

\* ------------------------------------------------------------------ bounds

\* The largest number of pages of a PDF document of the model.
MaxPages == 3

\* The largest result-count limit a search is given.
MaxResults == 2

\* --------------------------------------------------------- general helpers

None == "None"

Range(s) == {s[i] : i \in 1..Len(s)}

\* All orders in which a directory listing can enumerate the set S.
RECURSIVE Enumerations(_)
Enumerations(S) ==
    IF S = {} THEN {<<>>}
    ELSE UNION {{<<x>> \o e : e \in Enumerations(S \ {x})} : x \in S}

\* dict.get(key, default)
dict_get(d, key, default) == IF key \in DOMAIN d THEN d[key] ELSE default

\* ------------------------------------------------------------ text (str)

Whitespace == {" ", "\n"}

RECURSIVE lstrip(_)
lstrip(text) ==
    IF text = <<>> THEN <<>>
    ELSE IF Head(text) \in Whitespace THEN lstrip(Tail(text))
    ELSE text

RECURSIVE rstrip(_)
rstrip(text) ==
    IF text = <<>> THEN <<>>
    ELSE IF text[Len(text)] \in Whitespace
         THEN rstrip(SubSeq(text, 1, Len(text) - 1))
    ELSE text

\* str.strip(): leading and trailing whitespace removed
strip(text) == rstrip(lstrip(text))

\* sep.join(texts)
RECURSIVE str_join(_, _)
str_join(sep, texts) ==
    IF texts = <<>> THEN <<>>
    ELSE IF Len(texts) = 1 THEN texts[1]
    ELSE texts[1] \o sep \o str_join(sep, Tail(texts))

\* The separator of full_text, "\n\n".
PageSeparator == <<"\n", "\n">>

\* ------------------------------------------------------------------ paths

\* Path(dir) / name
path_of(dir, name) == [dir |-> dir, name |-> name]

\* str(path), used by the faulty variant of doc_id_of only.
path_str(p) == p.dir \o "/" \o p.name

\* Path.glob(pattern) for the patterns "*.pdf" and "*.json": the names
\* ending in the pattern's suffix.
glob_match(name, suffix) ==
    /\ Len(name) >= Len(suffix)
    /\ SubSeq(name, Len(name) - Len(suffix) + 1, Len(name)) = suffix

\* hashlib.md5(s.encode()).hexdigest(), tabulated on the strings of the model.
md5_hexdigest(s) ==
    CASE s = "a.pdf"        -> "49b732e3fec4da308144a178c11be0e2"
      [] s = "b.pdf"        -> "6f48c255b95233664489270fac54e807"
      [] s = "notes.txt"    -> "a5d5286f1e67b6cd6876223e53f999c4"
      [] s = "in/a.pdf"     -> "fd5e6478f262528e857d8b9846bb1897"
      [] s = "in/b.pdf"     -> "5169155d850a2237179195b7b7854a0d"
      [] s = "in/notes.txt" -> "3b3e01138ca47ce940717549eba5fb2c"
      [] s = "alt/a.pdf"    -> "abb3ea192c1976fb5e13d7a3980208ad"

\* The number of hex digits of the digest kept as the identifier.
DocIdLen == 12

\* A faulty variant of doc_id_of: the hash of the whole path, not of the name.
doc_id_of_path(pdf_path) == SubSeq(md5_hexdigest(path_str(pdf_path)), 1, DocIdLen)

\* hashlib.md5(pdf_path.name.encode()).hexdigest()[:12]
doc_id_of(pdf_path) == SubSeq(md5_hexdigest(pdf_path.name), 1, DocIdLen)

\* ---------------------------------------------------- PDFExtractor (ocr.py)

\* The metadata dictionary extract_text builds from the opened document.
extract_metadata(pdf_path, doc) ==
    [filename |-> pdf_path.name,
     pages    |-> Len(doc.pages),
     title    |-> dict_get(doc.metadata, "title", ""),
     author   |-> dict_get(doc.metadata, "author", ""),
     subject  |-> dict_get(doc.metadata, "subject", "")]

\* A faulty variant of keep_page: every page is kept, blank or not.
keep_every_page(text) == TRUE

\* if text.strip(): only non-empty pages
keep_page(text) == strip(text) # <<>>

\* The loop over enumerate(doc, start=1), from page_num on, with the page
\* list built so far.
RECURSIVE extract_pages(_, _, _)
extract_pages(doc, page_num, pages) ==
    IF page_num > Len(doc.pages) THEN pages
    ELSE LET text == doc.pages[page_num]
         IN  extract_pages(doc, page_num + 1,
                 IF keep_page(text)
                 THEN Append(pages, [page |-> page_num, text |-> strip(text)])
                 ELSE pages)

\* A faulty variant of full_text_of: the page texts joined by a single newline.
full_text_single_newline(pages) ==
    str_join(<<"\n">>, [i \in 1..Len(pages) |-> pages[i].text])

\* "\n\n".join(p["text"] for p in pages)
full_text_of(pages) ==
    str_join(PageSeparator, [i \in 1..Len(pages) |-> pages[i].text])

\* PDFExtractor.extract_text.  files is the filesystem.  The result tells
\* whether the call raised, what it returned, and whether the document
\* handle fitz.open returned is still open when the call is left.
\* A document's fault says where PyMuPDF fails on it: "open" (fitz.open
\* raises), "metadata" (doc.metadata is None, as for an encrypted file, and
\* .get raises), "get_text" (reading a page raises), "none".
extract_text(pdf_path, files) ==
    IF pdf_path \notin DOMAIN files \/ files[pdf_path].fault = "open"
    THEN [raised |-> "FileDataError", ret |-> None, doc_open |-> FALSE]
    ELSE LET doc == files[pdf_path]
         IN  IF doc.fault = "metadata"
             THEN [raised |-> "AttributeError", ret |-> None, doc_open |-> TRUE]
             ELSE IF doc.fault = "get_text" /\ Len(doc.pages) > 0
             THEN [raised |-> "RuntimeError", ret |-> None, doc_open |-> TRUE]
             ELSE LET metadata == extract_metadata(pdf_path, doc)
                      pages    == extract_pages(doc, 1, <<>>)
                  IN  [raised   |-> "none",
                       ret      |-> [doc_id    |-> doc_id_of(pdf_path),
                                     metadata  |-> metadata,
                                     pages     |-> pages,
                                     full_text |-> full_text_of(pages)],
                       doc_open |-> FALSE]

\* ------------------------------------------------------------------- JSON

\* A JSON object as json.dump writes it: the (key, value) pairs in order.
json_page(p) == <<<<"page", p.page>>, <<"text", p.text>>>>

\* json.dump(extracted, f): the text of the file, once the write completed.
json_dump(extracted) ==
    << <<"doc_id", extracted.doc_id>>,
       <<"metadata", << <<"filename", extracted.metadata.filename>>,
                        <<"pages", extracted.metadata.pages>>,
                        <<"title", extracted.metadata.title>>,
                        <<"author", extracted.metadata.author>>,
                        <<"subject", extracted.metadata.subject>> >> >>,
       <<"pages", [i \in 1..Len(extracted.pages) |->
                      json_page(extracted.pages[i])]>>,
       <<"full_text", extracted.full_text>> >>

\* The dictionary a parsed JSON object becomes: a later pair of a key wins.
json_object(pairs) ==
    [k \in {pairs[i][1] : i \in 1..Len(pairs)} |->
        LET last == CHOOSE i \in 1..Len(pairs) :
                        /\ pairs[i][1] = k
                        /\ \A j \in (i + 1)..Len(pairs) : pairs[j][1] # k
        IN  pairs[last][2]]

\* json.load(f) of a Document Record file: raises on a file whose text is
\* not a whole JSON document (a write that stopped partway).
json_load(file) ==
    IF ~file.complete
    THEN [raised |-> "JSONDecodeError", ret |-> None]
    ELSE LET top == json_object(file.text)
         IN  [raised |-> "none",
              ret |-> [k \in DOMAIN top |->
                          IF k = "metadata" THEN json_object(top[k])
                          ELSE IF k = "pages"
                               THEN [i \in 1..Len(top[k]) |-> json_object(top[k][i])]
                          ELSE top[k]]]

\* ----------------------------------------- PDFExtractor.process_directory

\* self.input_dir of the default PDFExtractor, "data/papers".
InputDir == "in"

\* with open(...) as f: the handle is closed when the block is left, by a
\* return or by an exception.
with_exit(handles, h) == handles \ {h}

\* How writing the output file can fail: "open" (open(output_file, 'w')
\* raises and the directory is untouched), "dump" (the file is created and
\* json.dump raises partway: disk full, text that utf-8 cannot encode).
WriteFaults == {"none", "open", "dump"}

\* A faulty variant of on_exception: no except clause, the exception leaves
\* process_directory.
on_exception_propagate(st, e) == [st EXCEPT !.raised = e]

\* except Exception as e: print the error and go on with the next file.
on_exception(st, e) == [st EXCEPT !.stdout = Append(@, <<"Error", e>>)]

\* The body of the loop of process_directory for one file.
\* st: results, output_dir, stdout, open_handles, seen, written, raised.
process_one(pdf_path, wfault, st, files) ==
    LET st1 == [st EXCEPT !.stdout = Append(@, <<"Processing", pdf_path.name>>)]
        ex  == extract_text(pdf_path, files)
    IN  IF ex.raised # "none"
        THEN on_exception(
                 [st1 EXCEPT !.open_handles =
                     IF ex.doc_open THEN @ \cup {[kind |-> "pdf", of |-> pdf_path.name]}
                     ELSE @],
                 ex.raised)
        ELSE LET extracted   == ex.ret
                 output_file == extracted.doc_id \o ".json"
                 h   == [kind |-> "json", of |-> output_file]
                 st2 == [st1 EXCEPT !.seen = @ \cup
                            {[path |-> pdf_path, doc_id |-> extracted.doc_id]}]
             IN  IF wfault = "open" THEN on_exception(st2, "OSError")
                 ELSE IF wfault = "dump"
                 THEN on_exception(
                          [st2 EXCEPT
                              !.output_dir = [n \in DOMAIN @ \cup {output_file} |->
                                  IF n = output_file
                                  THEN [complete |-> FALSE,
                                        text |-> SubSeq(json_dump(extracted), 1, 1)]
                                  ELSE @[n]],
                              !.written = @ \cup {output_file},
                              !.open_handles = with_exit(@ \cup {h}, h)],
                          "OSError")
                 ELSE [st2 EXCEPT
                          !.output_dir = [n \in DOMAIN @ \cup {output_file} |->
                              IF n = output_file
                              THEN [complete |-> TRUE, text |-> json_dump(extracted)]
                              ELSE @[n]],
                          !.written = @ \cup {output_file},
                          !.open_handles = with_exit(@ \cup {h}, h),
                          !.results = Append(@, extracted),
                          !.stdout = Append(@, <<"Saved", output_file>>)]

\* for pdf_path in pdf_files: ...
RECURSIVE process_loop(_, _, _, _)
process_loop(pdf_files, wfaults, st, files) ==
    IF pdf_files = <<>> \/ st.raised # "none" THEN st
    ELSE process_loop(Tail(pdf_files), wfaults,
             process_one(Head(pdf_files), wfaults[Head(pdf_files)], st, files),
             files)

\* list(self.input_dir.glob("*.pdf")): the matching files of the directory
\* itself, in the order the filesystem lists them.
glob_pdf(files) ==
    Enumerations({p \in DOMAIN files : p.dir = InputDir /\ glob_match(p.name, ".pdf")})

\* PDFExtractor.process_directory
ProcessDirectory ==
    \E pdf_files \in glob_pdf(fs) :
    \E wfaults \in [Range(pdf_files) -> WriteFaults] :
        LET st0 == [results |-> <<>>, output_dir |-> output_dir,
                    stdout |-> <<<<"Found", Len(pdf_files)>>>>,
                    open_handles |-> {}, seen |-> seen, written |-> {},
                    raised |-> "none"]
            st  == process_loop(pdf_files, wfaults, st0, fs)
        IN  /\ output_dir' = st.output_dir
            /\ stdout' = st.stdout
            /\ open_handles' = st.open_handles
            /\ seen' = st.seen
            /\ call' = [op |-> "process_directory",
                        args |-> [pdf_files |-> pdf_files, wfaults |-> wfaults],
                        raised |-> st.raised,
                        ret |-> IF st.raised = "none" THEN st.results ELSE None,
                        written |-> st.written]
            /\ UNCHANGED <<fs, store_vars>>

\* PDFExtractor.extract_single
ExtractSingle(pdf_path) ==
    LET ex == extract_text(pdf_path, fs)
    IN  /\ call' = [op |-> "extract_single", args |-> pdf_path,
                    raised |-> ex.raised, ret |-> ex.ret, written |-> {}]
        /\ stdout' = <<>>
        /\ open_handles' = IF ex.doc_open
                           THEN {[kind |-> "pdf", of |-> pdf_path.name]} ELSE {}
        /\ seen' = IF ex.raised = "none"
                   THEN seen \cup {[path |-> pdf_path, doc_id |-> ex.ret.doc_id]}
                   ELSE seen
        /\ UNCHANGED <<fs, output_dir, store_vars>>

\* ------------------------------------------------- SpliceDB (db_setup.py)

EmptyEntries == [id \in {} |-> None]

\* A faulty variant of get_or_create_collection: the collection is created afresh.
recreate_collection(store) == [exists |-> TRUE, entries |-> EmptyEntries]

\* SpliceDB.__init__: mkdir(parents=True, exist_ok=True), PersistentClient and
\* client.get_or_create_collection(name="splice_papers"): an existing
\* collection is opened as it is, a missing one is created empty.
get_or_create_collection(store) ==
    IF store.exists THEN store
    ELSE [exists |-> TRUE, entries |-> EmptyEntries]

\* A faulty variant of add_paper: collection.upsert in place of collection.add.
upsert_paper(entries, doc_id, text, metadata, policy) ==
    [raised |-> "none",
     entries |-> [id \in DOMAIN entries \cup {doc_id} |->
                     IF id = doc_id THEN [document |-> text, metadata |-> metadata]
                     ELSE entries[id]]]

\* SpliceDB.add_paper: collection.add(ids=[doc_id], documents=[text],
\* metadatas=[metadata]).  On an id the collection holds already, chromadb
\* keeps the stored entry: older releases raise, newer ones skip the add
\* (policy).
add_paper(entries, doc_id, text, metadata, policy) ==
    IF doc_id \in DOMAIN entries
    THEN [raised |-> IF policy = "raise" THEN "IDAlreadyExistsError" ELSE "none",
          entries |-> entries]
    ELSE [raised |-> "none",
          entries |-> [id \in DOMAIN entries \cup {doc_id} |->
                          IF id = doc_id
                          THEN [document |-> text, metadata |-> metadata]
                          ELSE entries[id]]]

\* The keys add_papers_from_json reads, in the order it reads them; the
\* first one missing raises KeyError.
has_expected_keys(data) ==
    /\ "metadata" \in DOMAIN data
    /\ {"filename", "title", "author", "pages"} \subseteq DOMAIN data["metadata"]
    /\ "doc_id" \in DOMAIN data
    /\ "full_text" \in DOMAIN data

\* A faulty variant of load_one: a file that cannot be read or lacks a key is
\* skipped and the load goes on.
load_one_isolated(json_file, st, dir, policy) ==
    LET h      == [kind |-> "json", of |-> json_file]
        loaded == json_load(dir[json_file])
    IN  IF loaded.raised # "none" \/ ~has_expected_keys(loaded.ret) THEN st
        ELSE LET data == loaded.ret
                 metadata == [filename |-> data["metadata"]["filename"],
                              title    |-> data["metadata"]["title"],
                              author   |-> data["metadata"]["author"],
                              pages    |-> data["metadata"]["pages"]]
                 added == add_paper(st.entries, data["doc_id"], data["full_text"],
                                    metadata, policy)
             IN  [st EXCEPT !.entries = added.entries,
                            !.stdout = Append(@, <<"Added", metadata.filename>>)]

\* The body of the loop of add_papers_from_json for one file.  Nothing is
\* caught: an exception leaves the loop and the call.
\* st: entries, stdout, open_handles, raised.
load_one(json_file, st, dir, policy) ==
    LET h      == [kind |-> "json", of |-> json_file]
        st1    == [st EXCEPT !.open_handles = with_exit(@ \cup {h}, h)]
        loaded == json_load(dir[json_file])
    IN  IF loaded.raised # "none" THEN [st1 EXCEPT !.raised = loaded.raised]
        ELSE IF ~has_expected_keys(loaded.ret) THEN [st1 EXCEPT !.raised = "KeyError"]
        ELSE LET data == loaded.ret
                 metadata == [filename |-> data["metadata"]["filename"],
                              title    |-> data["metadata"]["title"],
                              author   |-> data["metadata"]["author"],
                              pages    |-> data["metadata"]["pages"]]
                 added == add_paper(st1.entries, data["doc_id"], data["full_text"],
                                    metadata, policy)
             IN  IF added.raised # "none" THEN [st1 EXCEPT !.raised = added.raised]
                 ELSE [st1 EXCEPT !.entries = added.entries,
                                  !.stdout = Append(@, <<"Added", metadata.filename>>)]

\* for json_file in json_files: ...
RECURSIVE load_loop(_, _, _, _)
load_loop(json_files, st, dir, policy) ==
    IF json_files = <<>> \/ st.raised # "none" THEN st
    ELSE load_loop(Tail(json_files), load_one(Head(json_files), st, dir, policy),
                   dir, policy)

\* list(json_path.glob("*.json"))
glob_json(dir) == Enumerations({n \in DOMAIN dir : glob_match(n, ".json")})

\* SpliceDB.add_papers_from_json over the listing json_files.
add_papers_from_json(json_files, st, dir, policy) ==
    LET st1 == load_loop(json_files,
                   [st EXCEPT !.stdout = Append(@, <<"Found", Len(json_files)>>)],
                   dir, policy)
    IN  IF st1.raised # "none" THEN st1
        ELSE [st1 EXCEPT !.stdout =
                 Append(@, <<"Total", Cardinality(DOMAIN st1.entries)>>)]

\* SpliceDB.get_stats
get_stats(entries) ==
    [total_papers    |-> Cardinality(DOMAIN entries),
     collection_name |-> "splice_papers",
     db_path         |-> "data/chroma_db"]

\* A faulty variant of should_load: the papers are loaded whatever the count.
should_load_always(stats) == TRUE

\* if stats['total_papers'] == 0
should_load(stats) == stats.total_papers = 0

\* The default of search's n_results.
DefaultNResults == 5

\* The identifiers and texts add_paper is called with directly.
ManualIds == {doc_id_of(path_of(InputDir, "a.pdf")), "manual"}
ManualTexts == {<<"x">>, <<"y">>}
ManualMetadata == [filename |-> "m.pdf", title |-> "", author |-> "", pages |-> 1]

\* db = SpliceDB()
Initialize ==
    /\ chroma' = get_or_create_collection(chroma)
    /\ db_open' = TRUE
    /\ call' = [op |-> "__init__", args |-> None, raised |-> "none",
                ret |-> None, written |-> {}]
    /\ stdout' = <<>>
    /\ open_handles' = {}
    /\ UNCHANGED <<fs, output_dir, seen, on_duplicate>>

\* db.add_paper(doc_id, text, metadata)
AddPaper(doc_id, text) ==
    /\ db_open
    /\ LET added == add_paper(chroma.entries, doc_id, text, ManualMetadata,
                              on_duplicate)
       IN  /\ chroma' = [chroma EXCEPT !.entries = added.entries]
           /\ call' = [op |-> "add_paper", args |-> <<doc_id, text>>,
                       raised |-> added.raised, ret |-> None, written |-> {}]
    /\ stdout' = <<>>
    /\ open_handles' = {}
    /\ UNCHANGED <<fs, output_dir, seen, db_open, on_duplicate>>

\* db.add_papers_from_json()
AddPapersFromJson ==
    /\ db_open
    /\ \E json_files \in glob_json(output_dir) :
          LET st == add_papers_from_json(json_files,
                        [entries |-> chroma.entries, stdout |-> <<>>,
                         open_handles |-> {}, raised |-> "none"],
                        output_dir, on_duplicate)
          IN  /\ chroma' = [chroma EXCEPT !.entries = st.entries]
              /\ stdout' = st.stdout
              /\ open_handles' = st.open_handles
              /\ call' = [op |-> "add_papers_from_json", args |-> json_files,
                          raised |-> st.raised, ret |-> None, written |-> {}]
    /\ UNCHANGED <<fs, output_dir, seen, db_open, on_duplicate>>

\* db.search(query, n_results): collection.query passed through.  The
\* library returns the nearest min(n_results, count) entries in the order of
\* its own relevance computation, which is not the code's to decide.
Search(n_results) ==
    /\ db_open
    /\ \E hits \in Enumerations(DOMAIN chroma.entries) :
          LET n == IF n_results < Len(hits) THEN n_results ELSE Len(hits)
          IN  call' = [op |-> "search", args |-> n_results, raised |-> "none",
                       ret |-> SubSeq(hits, 1, n), written |-> {}]
    /\ stdout' = <<>>
    /\ open_handles' = {}
    /\ UNCHANGED <<fs, output_dir, seen, store_vars>>

\* db.get_stats()
GetStats ==
    /\ db_open
    /\ call' = [op |-> "get_stats", args |-> None, raised |-> "none",
                ret |-> get_stats(chroma.entries), written |-> {}]
    /\ stdout' = <<>>
    /\ open_handles' = {}
    /\ UNCHANGED <<fs, output_dir, seen, store_vars>>

\* init_database()
InitDatabase ==
    \E json_files \in glob_json(output_dir) :
        LET store == get_or_create_collection(chroma)
            stats == get_stats(store.entries)
            out0  == << <<"Initializing">>, <<"Current", stats.total_papers>> >>
            st    == IF should_load(stats)
                     THEN add_papers_from_json(json_files,
                              [entries |-> store.entries,
                               stdout |-> Append(out0, <<"Loading">>),
                               open_handles |-> {}, raised |-> "none"],
                              output_dir, on_duplicate)
                     ELSE [entries |-> store.entries,
                           stdout |-> Append(out0, <<"Populated">>),
                           open_handles |-> {}, raised |-> "none"]
        IN  /\ chroma' = [store EXCEPT !.entries = st.entries]
            /\ db_open' = (db_open \/ st.raised = "none")
            /\ stdout' = st.stdout
            /\ open_handles' = st.open_handles
            /\ call' = [op |-> "init_database",
                        args |-> IF should_load(stats) THEN json_files ELSE <<>>,
                        raised |-> st.raised, ret |-> None, written |-> {}]
            /\ UNCHANGED <<fs, output_dir, seen, on_duplicate>>

\* ---------------------------------------------------------------- inputs

\* The page texts PyMuPDF returns in the model: empty, whitespace only,
\* text, text with whitespace around it and inside it.
PageTexts ==
    {<<>>, <<" ">>, <<"\n", " ">>, <<"x">>, <<" ", "y", "\n">>, <<"x", " ", "y">>}

\* doc.metadata: the document properties present in the file.
MetaDicts ==
    {[k \in {} |-> ""], [title |-> "T", author |-> "A", subject |-> "S"],
     [title |-> "T"]}

Faults == {"none", "open", "metadata", "get_text"}

SeqsUpTo(S, n) == UNION {[1..k -> S] : k \in 0..n}

\* Every PDF document of at most MaxPages pages.
PDFDocs ==
    [pages : SeqsUpTo(PageTexts, MaxPages), metadata : MetaDicts, fault : Faults]

\* The documents of the batch runs.
TextDoc  == [pages |-> <<<<"x">>>>, metadata |-> [title |-> "T"], fault |-> "none"]
BlankDoc == [pages |-> <<<<" ">>, <<"y", " ">>>>, metadata |-> [k \in {} |-> ""],
             fault |-> "none"]
BatchDocs ==
    {TextDoc, BlankDoc, [TextDoc EXCEPT !.fault = "open"],
     [BlankDoc EXCEPT !.fault = "get_text"]}

BatchPaths ==
    {path_of(InputDir, "a.pdf"), path_of(InputDir, "b.pdf"),
     path_of(InputDir, "notes.txt"), path_of("alt", "a.pdf")}

\* The documents a path of the batch runs can hold: any of them in the
\* input directory's PDFs, readable ones elsewhere.
BatchChoices(p) ==
    IF p.dir = InputDir /\ glob_match(p.name, ".pdf") THEN BatchDocs
    ELSE IF p.dir = InputDir THEN {TextDoc}
    ELSE {TextDoc, BlankDoc}

BatchFilesystems ==
    UNION {{f \in [D -> BatchDocs] : \A p \in D : f[p] \in BatchChoices(p)} :
           D \in SUBSET BatchPaths}

\* The pairs of a JSON object without the key k.
drop_key(pairs, k) == SelectSeq(pairs, LAMBDA p : p[1] # k)

\* The pairs of a Document Record without the key k of its metadata.
drop_metadata_key(pairs, k) ==
    [i \in 1..Len(pairs) |->
        IF pairs[i][1] = "metadata" THEN <<"metadata", drop_key(pairs[i][2], k)>>
        ELSE pairs[i]]

\* The Document Record files the Extractor writes for a.pdf and b.pdf.
SampleFs ==
    [p \in {path_of(InputDir, "a.pdf"), path_of(InputDir, "b.pdf")} |->
        IF p.name = "a.pdf" THEN TextDoc ELSE BlankDoc]
RecordA == json_dump(extract_text(path_of(InputDir, "a.pdf"), SampleFs).ret)
RecordB == json_dump(extract_text(path_of(InputDir, "b.pdf"), SampleFs).ret)
IdA == doc_id_of(path_of(InputDir, "a.pdf"))
IdB == doc_id_of(path_of(InputDir, "b.pdf"))

\* What data/processed can hold when the Store runs: the Extractor's files,
\* whole or cut short by a failed write, and files missing an expected key.
JsonChoices ==
    [n \in {IdA \o ".json", IdB \o ".json", "copy.json"} |->
        IF n = IdA \o ".json"
        THEN {[complete |-> TRUE, text |-> RecordA],
              [complete |-> TRUE, text |-> drop_key(RecordA, "full_text")],
              [complete |-> TRUE, text |-> drop_metadata_key(RecordA, "title")],
              [complete |-> FALSE, text |-> SubSeq(RecordA, 1, 1)]}
        ELSE IF n = IdB \o ".json"
        THEN {[complete |-> TRUE, text |-> RecordB],
              [complete |-> TRUE, text |-> drop_key(RecordB, "doc_id")]}
        ELSE {[complete |-> TRUE, text |-> RecordA]}]

ProcessedDirs ==
    UNION {{d \in [D -> UNION {JsonChoices[n] : n \in D}] :
               \A n \in D : d[n] \in JsonChoices[n]} :
           D \in SUBSET DOMAIN JsonChoices}

NoCall == [op |-> "none", args |-> None, raised |-> "none", ret |-> None,
           written |-> {}]

\* ------------------------------------------------------- specifications

InitIdle ==
    /\ call = NoCall
    /\ stdout = <<>>
    /\ open_handles = {}
    /\ seen = {}
    /\ chroma = [exists |-> FALSE, entries |-> EmptyEntries]
    /\ db_open = FALSE

\* extract_text applied to every document of at most MaxPages pages.
InitExtract ==
    /\ InitIdle
    /\ fs \in [{path_of(InputDir, "a.pdf")} -> PDFDocs]
    /\ output_dir = [n \in {} |-> None]
    /\ on_duplicate = "ignore"

NextExtract == \E p \in DOMAIN fs : ExtractSingle(p)

SpecExtract == InitExtract /\ [][NextExtract]_vars

\* The Extractor over every small filesystem.
InitBatch ==
    /\ InitIdle
    /\ fs \in BatchFilesystems
    /\ output_dir = [n \in {} |-> None]
    /\ on_duplicate = "ignore"

NextBatch ==
    \/ ProcessDirectory
    \/ \E p \in DOMAIN fs : ExtractSingle(p)

SpecBatch == InitBatch /\ [][NextBatch]_vars

\* The Store over every content of data/processed.
InitStore ==
    /\ InitIdle
    /\ fs = [p \in {} |-> None]
    /\ output_dir \in ProcessedDirs
    /\ on_duplicate \in {"ignore", "raise"}

NextStore ==
    \/ Initialize
    \/ \E doc_id \in ManualIds, text \in ManualTexts : AddPaper(doc_id, text)
    \/ AddPapersFromJson
    \/ \E n_results \in (1..MaxResults) \cup {DefaultNResults} : Search(n_results)
    \/ GetStats
    \/ InitDatabase

SpecStore == InitStore /\ [][NextStore]_vars

\* ------------------------------------------------------------ the claims

\* The *.pdf files of the input directory.
PdfInputs == {p \in DOMAIN fs : p.dir = InputDir /\ glob_match(p.name, ".pdf")}

\* PyMuPDF reads the document without failing.
Readable(doc) == doc.fault = "none" \/ (doc.fault = "get_text" /\ doc.pages = <<>>)

\* In the last process_directory run, the extraction of p and the write of
\* its JSON file both succeeded.
Succeeded(p) == Readable(fs[p]) /\ call.args.wfaults[p] = "none"

ProcessingLines == {i \in 1..Len(stdout) : stdout[i][1] = "Processing"}

\* C1: process_directory isolates failures per file: whatever files fail, in
\* extraction or in the write, the call returns without raising, every
\* matched file is attempted, once, and the returned list holds exactly the
\* records of the files that succeeded, in the order of the listing.
C1_FailureIsolation ==
    call.op = "process_directory" =>
        /\ call.raised = "none"
        /\ Cardinality(ProcessingLines) = Cardinality(PdfInputs)
        /\ {stdout[i][2] : i \in ProcessingLines} = {p.name : p \in PdfInputs}
        /\ LET ok == SelectSeq(call.args.pdf_files, Succeeded)
           IN  /\ Len(call.ret) = Len(ok)
               /\ \A i \in 1..Len(ok) :
                      /\ call.ret[i].metadata.filename = ok[i].name
                      /\ call.ret[i] = extract_text(ok[i], fs).ret

\* C1 witness: a run in which the first file fails and a later one succeeds
\* and is returned.
C1_Witness ==
    /\ call.op = "process_directory"
    /\ Len(call.args.pdf_files) = 2
    /\ ~Succeeded(call.args.pdf_files[1])
    /\ Succeeded(call.args.pdf_files[2])
    /\ Len(call.ret) = 1
    /\ call.ret[1].metadata.filename = call.args.pdf_files[2].name

\* C6 (as claimed): after a process_directory run the files the run wrote
\* are exactly the <doc_id>.json files of the returned records, each holding
\* its record; no file is written for a document that is not returned.
C6_FilesMatchResults ==
    (call.op = "process_directory" /\ call.raised = "none") =>
        /\ call.written = {r.doc_id \o ".json" : r \in Range(call.ret)}
        /\ \A r \in Range(call.ret) :
              /\ (r.doc_id \o ".json") \in DOMAIN output_dir
              /\ output_dir[r.doc_id \o ".json"] =
                     [complete |-> TRUE, text |-> json_dump(r)]

\* C7 (as claimed): when a call is left, by a return or by an exception, no
\* file handle it opened is still open.
C7_NoHandleOutlivesCall == open_handles = {}

\* C9: the identifier depends on the file name alone: any two successful
\* extractions of files of the same name, whatever their directory and
\* content and whenever they ran, gave the same identifier, of 12 characters.
C9_IdFromFilenameOnly ==
    \A s, t \in seen :
        /\ Len(s.doc_id) = 12
        /\ s.path.name = t.path.name => s.doc_id = t.doc_id

\* C9 witness: two files of the same name, in different directories and of
\* different content, have both been extracted.
C9_Witness ==
    \E s, t \in seen :
        /\ s.path # t.path
        /\ s.path.name = t.path.name
        /\ fs[s.path] # fs[t.path]

\* A text that is empty or holds whitespace only.
IsBlank(text) == \A i \in 1..Len(text) : text[i] \in Whitespace

\* C4: extract_text drops exactly the blank pages, keeps the others in
\* ascending order under their 1-based page numbers, and metadata.pages is
\* the page count of the document, dropped pages included.
C4_BlankPagesDropped ==
    (call.op = "extract_single" /\ call.raised = "none") =>
        LET raw   == fs[call.args].pages
            pages == call.ret.pages
        IN  /\ {pages[i].page : i \in 1..Len(pages)} =
                   {n \in 1..Len(raw) : ~IsBlank(raw[n])}
            /\ \A i, j \in 1..Len(pages) : i < j => pages[i].page < pages[j].page
            /\ call.ret.metadata.pages = Len(raw)

\* C4 witness: a 3-page PDF whose page 2 is blank gave pages 1 and 3 and a
\* page count of 3.
C4_Witness ==
    /\ call.op = "extract_single"
    /\ call.raised = "none"
    /\ Len(fs[call.args].pages) = 3
    /\ IsBlank(fs[call.args].pages[2])
    /\ Len(call.ret.pages) = 2
    /\ call.ret.pages[1].page = 1
    /\ call.ret.pages[2].page = 3
    /\ call.ret.metadata.pages = 3

\* Where the text of entry i of the page list starts in full_text, less one.
RECURSIVE TextOffset(_, _)
TextOffset(pages, i) ==
    IF i = 1 THEN 0
    ELSE TextOffset(pages, i - 1) + Len(pages[i - 1].text) + 2

\* C5: full_text is the texts of the page list in page order with "\n\n"
\* between consecutive ones and nothing else; with every page blank the page
\* list is empty and full_text is the empty string.
C5_FullTextJoined ==
    (call.op = "extract_single" /\ call.raised = "none") =>
        LET pages == call.ret.pages
            full  == call.ret.full_text
            n     == Len(pages)
        IN  /\ n = 0 => full = <<>>
            /\ n > 0 => Len(full) = TextOffset(pages, n) + Len(pages[n].text)
            /\ \A i \in 1..n :
                  LET at == TextOffset(pages, i)
                  IN  /\ SubSeq(full, at + 1, at + Len(pages[i].text)) = pages[i].text
                      /\ i > 1 => SubSeq(full, at - 1, at) = <<"\n", "\n">>
            /\ (\A k \in 1..Len(fs[call.args].pages) : IsBlank(fs[call.args].pages[k]))
                  => (pages = <<>> /\ full = <<>>)

\* C5 witness: a document with a blank page between two pages of text.
C5_Witness ==
    /\ call.op = "extract_single"
    /\ call.raised = "none"
    /\ Len(call.ret.pages) = 2
    /\ Len(fs[call.args].pages) = 3
    /\ Len(call.ret.full_text) > 2

\* The keys of a JSON object given by its pairs.
KeysOf(pairs) == {pairs[i][1] : i \in 1..Len(pairs)}

\* The value the pairs give the key k (the keys of the model's files are not
\* repeated).
ValueOf(pairs, k) == pairs[CHOOSE i \in 1..Len(pairs) : pairs[i][1] = k][2]

\* The file n of data/processed is whole JSON with every expected key.
WellFormed(n) ==
    /\ output_dir[n].complete
    /\ {"doc_id", "full_text", "metadata"} \subseteq KeysOf(output_dir[n].text)
    /\ {"filename", "title", "author", "pages"} \subseteq
           KeysOf(ValueOf(output_dir[n].text, "metadata"))

\* The file n is whole JSON and misses an expected key.
MissingKey(n) == output_dir[n].complete /\ ~WellFormed(n)

FileId(n) == ValueOf(output_dir[n].text, "doc_id")
FileText(n) == ValueOf(output_dir[n].text, "full_text")

\* The bulk load over the listing files, started on the entries before,
\* gets as far as file m: the files before it are well formed and none of
\* their adds is refused by the library.
ReachesFile(files, m, before) ==
    \A i \in 1..(m - 1) :
        /\ WellFormed(files[i])
        /\ on_duplicate = "raise" =>
               FileId(files[i]) \notin
                   (DOMAIN before \cup {FileId(files[j]) : j \in 1..(i - 1)})

AddedLines == {i \in 1..Len(stdout) : stdout[i][1] = "Added"}

\* C2: add_papers_from_json is not isolated per file: when the listing
\* reaches a file missing an expected key, KeyError leaves the call, nothing
\* is added for that file or a later one, and the entries of the files
\* before it, like those the collection held, remain.
C2_BulkLoadAbortsAtMalformed ==
    [][call'.op = "add_papers_from_json" =>
          LET files  == call'.args
              before == chroma.entries
              after  == chroma'.entries
          IN  \A m \in 1..Len(files) :
                  (MissingKey(files[m]) /\ ReachesFile(files, m, before)) =>
                      /\ call'.raised = "KeyError"
                      /\ DOMAIN after =
                             DOMAIN before \cup {FileId(files[i]) : i \in 1..(m - 1)}
                      /\ \A id \in DOMAIN before : after[id] = before[id]
                      /\ \A id \in DOMAIN after \ DOMAIN before :
                             \E i \in 1..(m - 1) :
                                 /\ FileId(files[i]) = id
                                 /\ after[id].document = FileText(files[i])
    ]_vars

\* C2 witness: a bulk load that added an entry, then raised KeyError at a
\* file missing a key, and left a well-formed file after it unloaded.
C2_Witness ==
    /\ call.op = "add_papers_from_json"
    /\ call.raised = "KeyError"
    /\ Cardinality(AddedLines) = 1
    /\ Len(call.args) = 3
    /\ MissingKey(call.args[2])
    /\ WellFormed(call.args[3])
    /\ FileId(call.args[1]) \in DOMAIN chroma.entries
    /\ FileId(call.args[3]) \notin DOMAIN chroma.entries

\* C3: initializing the Store on a populated collection, by SpliceDB() or by
\* init_database(), leaves the entries as they are: the same identifiers,
\* the same count, nothing recreated.
C3_InitIdempotent ==
    [][(call'.op \in {"__init__", "init_database"} /\ DOMAIN chroma.entries # {}) =>
          /\ chroma'.entries = chroma.entries
          /\ chroma'.exists
    ]_vars

\* C3 witness: SpliceDB() has just run on a collection that holds entries.
C3_Witness ==
    /\ call.op = "__init__"
    /\ Cardinality(DOMAIN chroma.entries) >= 2

\* C8: the collection only grows: no step of the Store removes or changes
\* an entry or lowers the count, and search and get_stats change nothing.
C8_CollectionOnlyGrows ==
    [][/\ \A id \in DOMAIN chroma.entries :
              /\ id \in DOMAIN chroma'.entries
              /\ chroma'.entries[id] = chroma.entries[id]
       /\ Cardinality(DOMAIN chroma'.entries) >= Cardinality(DOMAIN chroma.entries)
       /\ call'.op \in {"search", "get_stats"} => chroma' = chroma
    ]_vars

\* C8 witness: an add_paper call on an identifier the collection holds has
\* returned, and the stored entry is not the one the call was given.
C8_Witness ==
    /\ call.op = "add_paper"
    /\ call.raised = "none"
    /\ call.args[1] \in DOMAIN chroma.entries
    /\ chroma.entries[call.args[1]].document # call.args[2]
    /\ Cardinality(DOMAIN chroma.entries) >= 2

\* C10: init_database bulk-loads exactly when the count it reads is 0: on a
\* populated collection it adds nothing and does not start a load, so the
\* records an aborted load left out are never inserted by a later run; on an
\* empty one it loads the files of the intermediate directory.
C10_LoadsOnlyWhenEmpty ==
    [][call'.op = "init_database" =>
          LET before == chroma.entries
              after  == chroma'.entries
              names  == {n \in DOMAIN output_dir : glob_match(n, ".json")}
              found  == {i \in 1..Len(stdout') : stdout'[i][1] = "Found"}
          IN  /\ DOMAIN before # {} => (after = before /\ found = {})
              /\ DOMAIN before = {} =>
                     /\ Cardinality(found) = 1
                     /\ \A i \in found : stdout'[i][2] = Cardinality(names)
                     /\ (/\ \A n \in names : WellFormed(n)
                         /\ \A n1, n2 \in names :
                                FileId(n1) = FileId(n2) => n1 = n2) =>
                            DOMAIN after = {FileId(n) : n \in names}
                     /\ (names # {} /\ WellFormed(call'.args[1])) =>
                            FileId(call'.args[1]) \in DOMAIN after
    ]_vars

\* C10 witness: init_database has run on a collection a load that aborted
\* left partly filled; it loaded nothing, and a well-formed file of the
\* directory is still not in the collection.
C10_Witness ==
    /\ call.op = "init_database"
    /\ call.raised = "none"
    /\ \E i \in 1..Len(stdout) : stdout[i][1] = "Populated"
    /\ DOMAIN chroma.entries # {}
    /\ \E n \in DOMAIN output_dir :
           WellFormed(n) /\ FileId(n) \notin DOMAIN chroma.entries

====
